---------------------------- MODULE Spec2Model ----------------------------
(***************************************************************************)
(* Model of the qlbridge expression parser (package expr): the token pager *)
(* LexTokenPager, the recursive-descent parser Tree.O/A/C/P/M/F/v/Func and *)
(* its entry point Tree.BuildTree.                                         *)
(*                                                                         *)
(* Two specifications:                                                     *)
(*   PagerSpec  any sequence of Next/Cur/Peek/Backup calls on one pager    *)
(*   Spec       NewTree(NewLexTokenPager(l)).BuildTree(runCheck), followed *)
(*              by Tree.String() and a second parse of the emitted text    *)
(*                                                                         *)
(* The cursor keeps Go's 0-based values (-1 = unprimed); the Go element    *)
(* tokens[i] is the TLA+ element tokens[i + 1].                            *)
(***************************************************************************)
EXTENDS Integers, Sequences, FiniteSets, TLC

VARIABLES
    src,      \* the token stream the lexer will produce (EOF follows it)
    m,        \* the LexTokenPager
    ret,      \* the last pager call made directly and what it returned
    stage,    \* "init" | "built" | "emitted" | "reparsed"
    tree,     \* the Tree: runCheck, Root
    result,   \* how BuildTree ended
    emitted,  \* the token stream of Tree.String()
    again,    \* the tree and outcome of parsing emitted
    w,        \* a DialectWriter
    wcall,    \* the last write made on w, the writer it met, the writes so far
    registry, \* the names registered in the function registry
    evalret   \* the last call of EmptyEvalFunc and what it returned

vars == <<src, m, ret, stage, tree, result, emitted, again,
          w, wcall, registry, evalret>>

\* the writer and registry side, which the parser's specifications leave alone
wvars == <<w, wcall, registry, evalret>>

\* the parser side, which the writer's and registry's specifications leave alone
pvars == <<src, m, ret, stage, tree, result, emitted, again>>

(***************************************************************************)
(* Bounds                                                                  *)
(***************************************************************************)
MaxStream == 3     \* PagerSpec: longest lexer output before EOF
MaxShort == 2      \* Spec: longest arbitrary token stream before EOF
MaxArgs == 2       \* Spec: most arguments of a generated call

(***************************************************************************)
(* Tokens (lex.Token): T is the token type, V the text.  Pos is left out:  *)
(* the parser only copies it into nodes.                                   *)
(***************************************************************************)
Tok(T, V) == [T |-> T, V |-> V]

EOFTok == Tok("EOF", "")

\* what a read outside the buffer stands for (Go: index out of range)
NoTok == Tok("<fault>", "")

(***************************************************************************)
(* The lexer, reduced to its interface: NextToken returns the stream's     *)
(* tokens in order and EOF from then on; pos counts the calls.             *)
(***************************************************************************)
NewLexer(input) == [input |-> input, pos |-> 0]

NextToken(l) ==
    [lex |-> [l EXCEPT !.pos = @ + 1],
     tok |-> IF l.pos < Len(l.input) THEN l.input[l.pos + 1] ELSE EOFTok]

\* the first n tokens of the lexer's output
LexOutput(l, n) ==
    [i \in 1..n |-> IF i <= Len(l.input) THEN l.input[i] ELSE EOFTok]

(***************************************************************************)
(* LexTokenPager                                                           *)
(***************************************************************************)
NewLexTokenPager(l) ==
    [lex |-> l, tokens |-> <<>>, cursor |-> -1, done |-> FALSE, fault |-> FALSE]

\* m.tokens[i] as the pager reads it; a read outside the buffer is recorded
Read(p, i) ==
    IF i >= 0 /\ i < Len(p.tokens)
    THEN [m |-> p, tok |-> p.tokens[i + 1]]
    ELSE [m |-> [p EXCEPT !.fault = TRUE], tok |-> NoTok]

\* tok := m.lex.NextToken(); done when it is EOF; m.tokens = append(...)
Buffer(p, r) ==
    [p EXCEPT !.lex = r.lex,
              !.done = IF r.tok.T = "EOF" THEN TRUE ELSE @,
              !.tokens = Append(@, r.tok)]

\* if !m.done { ... }
Fetch(p) == IF ~p.done THEN Buffer(p, NextToken(p.lex)) ELSE p

\* if m.cursor+1 < len(m.tokens) { m.cursor++ }
Advance(p) == IF p.cursor + 1 < Len(p.tokens) THEN [p EXCEPT !.cursor = @ + 1] ELSE p

\* return m.tokens[m.cursor]
ReadCursor(p) == Read(p, p.cursor)

Next_NoDoneCheck(p) == ReadCursor(Advance(Buffer(p, NextToken(p.lex))))

Next(p) == ReadCursor(Advance(Fetch(p)))

Cur(p) == IF p.cursor = -1 THEN Next(p) ELSE ReadCursor(p)

Backup_AtZero(p) == IF p.cursor >= 0 THEN [p EXCEPT !.cursor = @ - 1] ELSE p

Backup(p) == IF p.cursor > 0 THEN [p EXCEPT !.cursor = @ - 1] ELSE p

\* m.Next(); m.cursor--
Rewind(p) == [p EXCEPT !.cursor = @ - 1]

\* return m.tokens[m.cursor+1]
ReadAhead(p) == Read(p, p.cursor + 1)

Peek(p) ==
    ReadAhead(IF Len(p.tokens) <= p.cursor + 1 THEN Rewind(Next(p).m) ELSE p)

(***************************************************************************)
(* Nodes.  Nil is Go's nil Node.                                           *)
(***************************************************************************)
Nil == [k |-> "nil"]

NewStringNode(text) == [k |-> "String", v |-> text]

NewIdentityNode(text) == [k |-> "Identity", v |-> text]

NewUnary(op, arg) == [k |-> "Unary", op |-> op.T, arg |-> arg]

NewBinaryNode(op, lhs, rhs) ==
    [k |-> "Binary", op |-> op.T, l |-> lhs, r |-> rhs, Paren |-> FALSE]

NewTriNode(op, a1, a2, a3) == [k |-> "Tri", op |-> op.T, args |-> <<a1, a2, a3>>]

NewMultiArgNode(op) == [k |-> "MultiArg", op |-> op.T, args |-> <<>>]

NewFuncNode(name, f) == [k |-> "Func", name |-> name, f |-> f, args |-> <<>>]

\* FuncNode.append / MultiArgNode.Append
Append_(fn, n) == [fn EXCEPT !.args = Append(@, n)]

\* the texts the lexer's number tokens carry that strconv accepts
IntTexts == {"1", "5"}
FloatTexts == {"1.5"}

\* NewNumber: the node, or the error of a text that is no number
NewNumber(text) ==
    IF text \in IntTexts \cup FloatTexts
    THEN [n |-> [k |-> "Number", v |-> text], ok |-> TRUE]
    ELSE [n |-> Nil, ok |-> FALSE]

(***************************************************************************)
(* The function registry: the lower-cased names of the registered          *)
(* functions.                                                              *)
(***************************************************************************)
funcs == {"toint", "count"}

\* strings.ToLower on the names the model uses
ToLower(s) ==
    CASE s = "ToInt" -> "toint"
      [] s = "NoSuch" -> "nosuch"
      [] OTHER -> s

getFunction(name) ==
    IF ToLower(name) \in funcs
    THEN [v |-> [Name |-> ToLower(name), synthetic |-> FALSE], ok |-> TRUE]
    ELSE [v |-> [Name |-> "", synthetic |-> FALSE], ok |-> FALSE]

(***************************************************************************)
(* Panics.  A panic carries an error value (errorf, error, unexpected) or  *)
(* a plain string (the panics of F and Func).                              *)
(***************************************************************************)
NoPanic == [kind |-> "none", text |-> "", tok |-> NoTok, arg |-> ""]

PanicError(text, tok, arg) == [kind |-> "error", text |-> text, tok |-> tok, arg |-> arg]

PanicString(text, tok) == [kind |-> "string", text |-> text, tok |-> tok, arg |-> ""]

\* a call that returned n, and a call that panicked with pn
R(t, n) == [t |-> t, n |-> n, pn |-> NoPanic]

Raise(t, pn) == [t |-> t, n |-> Nil, pn |-> pn]

Panicked(r) == r.pn.kind # "none"

(***************************************************************************)
(* Tree: runCheck, Root and the embedded pager m.                          *)
(***************************************************************************)
NewTree(pager) == [runCheck |-> FALSE, Root |-> Nil, m |-> pager]

\* the embedded pager's calls, on the tree
TCur(t) == [t |-> [t EXCEPT !.m = Cur(t.m).m], tok |-> Cur(t.m).tok]

TNext(t) == [t EXCEPT !.m = Next(t.m).m]

TPeek(t) == [t |-> [t EXCEPT !.m = Peek(t.m).m], tok |-> Peek(t.m).tok]

IsEnd(t) == FALSE

errorf(t, format, tok, arg) ==
    Raise([t EXCEPT !.Root = Nil], PanicError("expr: " \o format, tok, arg))

error(t, err) == errorf(t, "%s", NoTok, err)

unexpected(t, token, context) == errorf(t, "unexpected %s in %s", token, context)

\* expect, c being the result of t.Cur()
expectToken(c, expected, context) ==
    IF c.tok.T # expected THEN unexpected(c.t, c.tok, context) ELSE R(c.t, Nil)

expect(t, expected, context) == expectToken(TCur(t), expected, context)

\* bn.Paren = true when n is a *BinaryNode
SetParen(n) == IF n.k = "Binary" THEN [n EXCEPT !.Paren = TRUE] ELSE n

(***************************************************************************)
(* The grammar.  Every function takes the tree t (for its pager, runCheck  *)
(* and Root) and yields R(t', node) or Raise(t', panic); a panic in a      *)
(* callee unwinds through the caller.  The depth argument of the source    *)
(* only feeds log lines and is left out.  The functions call one another   *)
(* through Call, which names the callee.                                   *)
(***************************************************************************)
RECURSIVE Call(_, _, _, _)

OrOps == {"LogicOr", "Or"}
AndOps == {"LogicAnd", "And"}
CmpOps == {"Equal", "EqualEqual", "NE", "GT", "GE", "LE", "LT", "Like"}
AddOps == {"Plus", "Minus"}
MulOps == {"Star", "Multiply", "Divide", "Modulus"}

\* n := <callee>; for { ... }: r is the callee's result, rule the loop
ThenLoop(rule, r) == IF Panicked(r) THEN r ELSE Call(rule, r.t, r.n, Nil)

\* n = NewBinaryNode(tok, n, <callee>), and round the loop again
BinaryThenLoop(rule, tok, n, r) ==
    IF Panicked(r) THEN r ELSE Call(rule, r.t, NewBinaryNode(tok, n, r.n), Nil)

\* the switch of O's loop: c is t.Cur(), n the node built so far
OSwitch(c, n) ==
    CASE c.tok.T \in OrOps ->
              BinaryThenLoop("OLoop", c.tok, n, Call("A", TNext(c.t), Nil, Nil))
      [] c.tok.T = "CommentSingleLine" -> Call("OLoop", TNext(TNext(c.t)), n, Nil)
      [] OTHER -> R(c.t, n)

OLoop(t, n) == OSwitch(TCur(t), n)

O(t) == ThenLoop("OLoop", Call("A", t, Nil, Nil))

ASwitch(c, n) ==
    IF c.tok.T \in AndOps
    THEN BinaryThenLoop("ALoop", c.tok, n, Call("C", TNext(c.t), Nil, Nil))
    ELSE R(c.t, n)

ALoop(t, n) == ASwitch(TCur(t), n)

A(t) == ThenLoop("ALoop", Call("C", t, Nil, Nil))

\* n = NewTriNode(cur, n, n2, t.P(depth+1)): hi is the result of t.P
BetweenUpper(cur, n, n2, hi) ==
    IF Panicked(hi) THEN hi ELSE R(hi.t, NewTriNode(cur, n, n2, hi.n))

\* t.Next(), the log line's t.Cur() and t.Peek(), then t.P: e is the result
\* of t.expect(lex.TokenLogicAnd, "input")
BetweenAnd(cur, n, n2, e) ==
    IF Panicked(e) THEN e
    ELSE BetweenUpper(cur, n, n2,
                      Call("P", TPeek(TCur(TNext(e.t)).t).t, Nil, Nil))

\* lo is the result of parsing the lower bound
BetweenLower(cur, n, lo) ==
    IF Panicked(lo) THEN lo
    ELSE BetweenAnd(cur, n, lo.n, expect(lo.t, "LogicAnd", "input"))

Between_LowerO(t, cur, n) == BetweenLower(cur, n, Call("O", TNext(t), Nil, Nil))

\* the BETWEEN case of C: cur is the BETWEEN token, n the operand before it
Between(t, cur, n) == BetweenLower(cur, n, Call("P", TNext(t), Nil, Nil))

CSwitch(c, n) ==
    CASE c.tok.T \in CmpOps ->
              BinaryThenLoop("CLoop", c.tok, n, Call("P", TNext(c.t), Nil, Nil))
      [] c.tok.T = "Between" -> ThenLoop("CLoop", Call("Between", c.t, c.tok, n))
      [] c.tok.T = "IN" -> Call("MultiArg", TNext(c.t), n, c.tok)
      [] OTHER -> R(c.t, n)

CLoop(t, n) == CSwitch(TCur(t), n)

C(t) == ThenLoop("CLoop", Call("P", t, Nil, Nil))

\* a loop that takes the whole rest as its right operand
BinaryThenReturn(tok, n, r) ==
    IF Panicked(r) THEN r ELSE R(r.t, NewBinaryNode(tok, n, r.n))

PSwitch_RightAssoc(c, n) ==
    IF c.tok.T \in AddOps
    THEN BinaryThenReturn(c.tok, n, Call("P", TNext(c.t), Nil, Nil))
    ELSE R(c.t, n)

PLoop_RightAssoc(t, n) == PSwitch_RightAssoc(TCur(t), n)

PSwitch(c, n) ==
    IF c.tok.T \in AddOps
    THEN BinaryThenLoop("PLoop", c.tok, n, Call("M", TNext(c.t), Nil, Nil))
    ELSE R(c.t, n)

PLoop(t, n) == PSwitch(TCur(t), n)

P(t) == ThenLoop("PLoop", Call("M", t, Nil, Nil))

MSwitch(c, n) ==
    IF c.tok.T \in MulOps
    THEN BinaryThenLoop("MLoop", c.tok, n, Call("F", TNext(c.t), Nil, Nil))
    ELSE R(c.t, n)

MLoop(t, n) == MSwitch(TCur(t), n)

M_NoLoop(t) == Call("F", t, Nil, Nil)

M(t) == ThenLoop("MLoop", Call("F", t, Nil, Nil))

\* n := t.O(depth); if n != nil { multiNode.Append(n) } else { return }
MultiArgAppend(multiNode, r) ==
    IF Panicked(r) THEN r
    ELSE IF r.n # Nil
    THEN Call("MultiArgLoop", r.t, Append_(multiNode, r.n), Nil)
    ELSE R(r.t, multiNode)

MultiArgSwitch(c, multiNode) ==
    CASE c.tok.T = "RightParenthesis" -> R(TNext(c.t), multiNode)
      [] c.tok.T = "Comma" -> Call("MultiArgLoop", TNext(c.t), multiNode, Nil)
      [] OTHER -> MultiArgAppend(multiNode, Call("O", c.t, Nil, Nil))

\* the for loop of MultiArg
MultiArgLoop(t, multiNode) == MultiArgSwitch(TCur(t), multiNode)

\* e is the result of t.expect(lex.TokenLeftParenthesis, "input")
MultiArgOpen(e, first, op) ==
    IF Panicked(e) THEN e
    ELSE Call("MultiArgLoop", TNext(e.t), Append_(NewMultiArgNode(op), first), Nil)

MultiArg(t, first, op) ==
    MultiArgOpen(expect(t, "LeftParenthesis", "input"), first, op)

\* return NewUnary(cur, t.F(depth+1))
FUnary(cur, r) == IF Panicked(r) THEN r ELSE R(r.t, NewUnary(cur, r.n))

\* t.expect(lex.TokenRightParenthesis, "input"); t.Next(); return n
FGroupClose(n, e) == IF Panicked(e) THEN e ELSE R(TNext(e.t), n)

\* n := t.O(depth + 1); bn.Paren = true; ...
FGroup(r) ==
    IF Panicked(r) THEN r
    ELSE FGroupClose(SetParen(r.n), expect(r.t, "RightParenthesis", "input"))

FSwitch(c) ==
    CASE c.tok.T \in {"UdfExpr", "Integer", "Float", "Identity", "Value", "Star"} ->
              Call("v", c.t, Nil, Nil)
      [] c.tok.T \in {"Negate", "Minus"} ->
              FUnary(c.tok, Call("F", TNext(c.t), Nil, Nil))
      [] c.tok.T = "LeftParenthesis" -> FGroup(Call("O", TNext(c.t), Nil, Nil))
      [] OTHER -> Raise(c.t, PanicString("unexpected token %v ", c.tok))

F(t) == FSwitch(TCur(t))

\* n, err := NewNumber(Pos(cur.Pos), cur.V)
vNumber(t, cur, num) ==
    IF ~num.ok THEN error(t, "strconv: " \o cur.V) ELSE R(TNext(t), num.n)

\* t.Next(); t.expect(lex.TokenRightParenthesis, "input"); return n
vGroupClose(n, e) == IF Panicked(e) THEN e ELSE R(e.t, n)

vGroup(r) ==
    IF Panicked(r) THEN r
    ELSE vGroupClose(SetParen(r.n),
                     expect(TNext(r.t), "RightParenthesis", "input"))

vSwitch(c) ==
    CASE c.tok.T \in {"Integer", "Float"} -> vNumber(c.t, c.tok, NewNumber(c.tok.V))
      [] c.tok.T = "Value" -> R(TNext(c.t), NewStringNode(c.tok.V))
      [] c.tok.T = "Identity" -> R(TNext(c.t), NewIdentityNode(c.tok.V))
      [] c.tok.T = "Star" -> R(TNext(c.t), NewStringNode(c.tok.V))
      [] c.tok.T = "UdfExpr" -> Call("Func", c.t, c.tok, Nil)
      [] c.tok.T = "LeftParenthesis" -> vGroup(Call("O", TNext(c.t), Nil, Nil))
      [] OTHER ->
           IF IsEnd(c.t) THEN R(c.t, Nil) ELSE unexpected(c.t, c.tok, "input")

v(t) == vSwitch(TCur(t))

\* one argument of a call
FuncArg_F(t) == Call("F", t, Nil, Nil)

FuncArg(t) == Call("O", t, Nil, Nil)

\* if node != nil { fn.append(node) }
AppendIfNode(fn, node) == IF node # Nil THEN Append_(fn, node) ELSE fn

\* the operator case of the second switch: node = t.O(depth + 1) overwrites
\* the argument parsed before, which is dropped
FuncTailExpr(fn, r) ==
    IF Panicked(r) THEN r ELSE Call("FuncLoop", r.t, AppendIfNode(fn, r.n), Nil)

\* the second switch of Func's loop: c is t.Cur(), node the argument parsed
FuncTailSwitch(c, fn, node) ==
    CASE c.tok.T = "Comma" -> Call("FuncLoop", c.t, AppendIfNode(fn, node), Nil)
      [] c.tok.T = "RightParenthesis" -> R(TNext(c.t), AppendIfNode(fn, node))
      [] c.tok.T \in {"EOF", "EOS", "From"} -> R(TNext(c.t), AppendIfNode(fn, node))
      [] c.tok.T \in {"Equal", "EqualEqual", "NE", "GT", "GE", "LE", "LT",
                      "Star", "Multiply", "Divide"} ->
              FuncTailExpr(fn, Call("O", c.t, Nil, Nil))
      [] OTHER -> unexpected(c.t, c.tok, "func")

FuncTail(t, fn, node) == FuncTailSwitch(TCur(t), fn, node)

\* node = t.O(depth + 1), then the second switch
FuncLoopArg(fn, r) == IF Panicked(r) THEN r ELSE Call("FuncTail", r.t, fn, r.n)

\* the first switch of Func's loop: c is t.Cur() after the loop's t.Next()
FuncLoopSwitch(c, fn) ==
    CASE c.tok.T = "RightParenthesis" -> R(TNext(c.t), fn)
      [] c.tok.T \in {"EOF", "EOS", "From"} -> R(c.t, fn)
      [] OTHER -> FuncLoopArg(fn, Call("FuncArg", c.t, Nil, Nil))

\* one round of Func's for loop, from its t.Next()
FuncLoop(t, fn) == FuncLoopSwitch(TCur(TNext(t)), fn)

\* a descriptor that holds just the name: Func{Name: token.V}
SyntheticFunc(name) == [Name |-> name, synthetic |-> TRUE]

\* e is the result of t.expect(lex.TokenLeftParenthesis, "func")
FuncOpen(e, fn) == IF Panicked(e) THEN e ELSE Call("FuncLoop", e.t, fn, Nil)

\* pk is t.Peek(), g the result of t.getFunction(token.V)
FuncResolve(pk, tok, g) ==
    IF pk.tok.T # "LeftParenthesis"
    THEN Raise(pk.t, PanicString("must have left paren on function", NoTok))
    ELSE IF ~g.ok /\ pk.t.runCheck
    THEN errorf(pk.t, "non existent function %s", tok, tok.V)
    ELSE FuncOpen(expect(TNext(pk.t), "LeftParenthesis", "func"),
                  NewFuncNode(tok.V, IF g.ok THEN g.v ELSE SyntheticFunc(tok.V)))

Func(t, tok) == FuncResolve(TPeek(t), tok, getFunction(tok.V))

Call(rule, t, x, y) ==
    CASE rule = "O" -> O(t)
      [] rule = "OLoop" -> OLoop(t, x)
      [] rule = "A" -> A(t)
      [] rule = "ALoop" -> ALoop(t, x)
      [] rule = "C" -> C(t)
      [] rule = "CLoop" -> CLoop(t, x)
      [] rule = "Between" -> Between(t, x, y)
      [] rule = "MultiArg" -> MultiArg(t, x, y)
      [] rule = "MultiArgLoop" -> MultiArgLoop(t, x)
      [] rule = "P" -> P(t)
      [] rule = "PLoop" -> PLoop(t, x)
      [] rule = "M" -> M(t)
      [] rule = "MLoop" -> MLoop(t, x)
      [] rule = "F" -> F(t)
      [] rule = "v" -> v(t)
      [] rule = "Func" -> Func(t, x)
      [] rule = "FuncArg" -> FuncArg(t)
      [] rule = "FuncLoop" -> FuncLoop(t, x)
      [] rule = "FuncTail" -> FuncTail(t, x, y)


(***************************************************************************)
(* Node.Check, run over the tree by BuildTree(true): the invariants of     *)
(* each node variant.                                                      *)
(***************************************************************************)
RECURSIVE Check(_)

Check(n) ==
    CASE n.k = "Unary" ->
              n.op \in {"Negate", "Minus"} /\ n.arg # Nil /\ Check(n.arg)
      [] n.k = "Binary" -> n.l # Nil /\ n.r # Nil /\ Check(n.l) /\ Check(n.r)
      [] n.k = "Tri" -> \A i \in 1..3 : n.args[i] # Nil /\ Check(n.args[i])
      [] n.k = "MultiArg" ->
              Len(n.args) >= 1 /\ \A i \in DOMAIN n.args : Check(n.args[i])
      [] n.k = "Func" -> \A i \in DOMAIN n.args : Check(n.args[i])
      [] OTHER -> TRUE

(***************************************************************************)
(* BuildTree.  It defers no recover: a panic raised below it leaves        *)
(* through it.  how = "returned" with err (NoPanic for nil), or            *)
(* how = "panic" with the value the caller's goroutine panics with.        *)
(***************************************************************************)
NoErr == NoPanic

\* a call of BuildTree that a panic left
Escaped(r) == [t |-> r.t, how |-> "panic", err |-> r.pn]

\* if runCheck { if err := t.Root.Check(); err != nil { t.error(err) } }
BuildTreeCheck(t, runCheck) ==
    IF runCheck /\ ~Check(t.Root)
    THEN Escaped(error(t, "check"))
    ELSE [t |-> t, how |-> "returned", err |-> NoErr]

\* t.Root = t.O(0): r is the result of t.O(0)
BuildTreeRoot(r, runCheck) ==
    IF Panicked(r) THEN Escaped(r)
    ELSE BuildTreeCheck([r.t EXCEPT !.Root = r.n], runCheck)

BuildTree(t0, runCheck) ==
    BuildTreeRoot(Call("O", [t0 EXCEPT !.runCheck = runCheck], Nil, Nil), runCheck)

(***************************************************************************)
(* Tree.String(): Root.String() through the default writer, as the token   *)
(* stream the lexer reads back from the emitted text.                      *)
(***************************************************************************)
OpText(T) ==
    CASE T = "LogicOr" -> "OR" [] T = "Or" -> "||"
      [] T = "LogicAnd" -> "AND" [] T = "And" -> "&&"
      [] T = "Equal" -> "=" [] T = "EqualEqual" -> "==" [] T = "NE" -> "!="
      [] T = "GT" -> ">" [] T = "GE" -> ">=" [] T = "LE" -> "<=" [] T = "LT" -> "<"
      [] T = "Like" -> "LIKE" [] T = "Plus" -> "+" [] T = "Minus" -> "-"
      [] T = "Star" -> "*" [] T = "Multiply" -> "*" [] T = "Divide" -> "/"
      [] T = "Modulus" -> "%" [] T = "Negate" -> "!" [] T = "Between" -> "BETWEEN"
      [] T = "IN" -> "IN" [] T = "LeftParenthesis" -> "("
      [] T = "RightParenthesis" -> ")" [] T = "Comma" -> ","
      [] T = "CommentSingleLine" -> "--" [] T = "From" -> "FROM"
      [] T = "EOS" -> ";" [] T = "If" -> "IF" [] T = "As" -> "AS"
      [] T = "Select" -> "SELECT" [] T = "Limit" -> "LIMIT"
      [] OTHER -> ""

Sym(T) == Tok(T, OpText(T))

RECURSIVE String(_), StringList(_, _)

\* the nodes args[i..], comma separated
StringList(args, i) ==
    IF i > Len(args) THEN <<>>
    ELSE String(args[i])
         \o (IF i < Len(args) THEN <<Sym("Comma")>> ELSE <<>>)
         \o StringList(args, i + 1)

String(n) ==
    CASE n.k = "Number" ->
              <<Tok(IF n.v \in FloatTexts THEN "Float" ELSE "Integer", n.v)>>
      [] n.k = "String" ->
              IF n.v = "*" THEN <<Sym("Star")>> ELSE <<Tok("Value", n.v)>>
      [] n.k = "Identity" -> <<Tok("Identity", n.v)>>
      [] n.k = "Unary" -> <<Sym(n.op)>> \o String(n.arg)
      [] n.k = "Binary" ->
              (IF n.Paren THEN <<Sym("LeftParenthesis")>> ELSE <<>>)
              \o String(n.l) \o <<Sym(n.op)>> \o String(n.r)
              \o (IF n.Paren THEN <<Sym("RightParenthesis")>> ELSE <<>>)
      [] n.k = "Tri" ->
              String(n.args[1]) \o <<Sym("Between")>> \o String(n.args[2])
              \o <<Sym("LogicAnd")>> \o String(n.args[3])
      [] n.k = "MultiArg" ->
              String(n.args[1]) \o <<Sym("IN"), Sym("LeftParenthesis")>>
              \o StringList(n.args, 2) \o <<Sym("RightParenthesis")>>
      [] n.k = "Func" ->
              <<Tok("UdfExpr", n.name), Sym("LeftParenthesis")>>
              \o StringList(n.args, 1) \o <<Sym("RightParenthesis")>>
      [] OTHER -> <<>>

(***************************************************************************)
(* The token streams the parser is run on.                                 *)
(***************************************************************************)
BinOps == OrOps \cup AndOps \cup CmpOps \cup AddOps \cup MulOps

Id(name) == Tok("Identity", name)

\* a o1 b o2 c
PairStreams ==
    { <<a, Sym(o1), b, Sym(o2), c>> :
        a \in {Id("a"), Tok("Integer", "5")},
        o1 \in BinOps,
        b \in {Id("b"), Tok("Value", "s")},
        o2 \in BinOps,
        c \in {Id("c"), Tok("Integer", "1")} }

\* x BETWEEN lo AND hi, and the same followed by a second AND and c
BetweenStreams ==
    LET Heads == { <<Id("x"), Sym("Between"), lo, Sym(d), hi>> :
                    lo \in {Id("a"), Tok("Integer", "1")},
                    d \in AndOps,
                    hi \in {Id("b"), Tok("Integer", "5")} }
    IN Heads \cup { h \o <<Sym(d), c>> :
                     h \in Heads, d \in AndOps, c \in {Id("c"), Tok("Value", "s")} }

\* the expressions used as call arguments and inside groups
ArgExprs ==
    { <<Id("a")>>, <<Tok("Integer", "1")>>, <<Sym("Star")>> }
    \cup { <<Id("b"), Sym(o), Id("c")>> :
             o \in {"LogicOr", "LogicAnd", "GT", "Equal", "Plus", "Star", "Divide"} }

FuncNames == {"toint", "ToInt", "NoSuch"}

RECURSIVE ArgLists(_)

\* the comma separated lists of at most n arguments
ArgLists(n) ==
    IF n = 0 THEN { <<>> }
    ELSE LET Shorter == ArgLists(n - 1)
         IN Shorter \cup ArgExprs
            \cup { l \o <<Sym("Comma")>> \o e :
                     l \in Shorter \ { <<>> }, e \in ArgExprs }

\* name ( args ), with and without the closing parenthesis
CallStreams ==
    LET Open == { <<Tok("UdfExpr", f), Sym("LeftParenthesis")>> \o l :
                    f \in FuncNames, l \in ArgLists(MaxArgs) }
    IN Open \cup { o \o <<Sym("RightParenthesis")>> : o \in Open }

\* what stands inside a parenthesized group
GroupBodies ==
    { <<Id("b")>>,
      <<Sym("Minus"), Id("b")>>,
      <<Id("b"), Sym("Between"), Id("c"), Sym("LogicAnd"), Id("d")>>,
      <<Id("b"), Sym("IN"), Sym("LeftParenthesis"), Id("c"), Sym("Comma"),
        Id("d"), Sym("RightParenthesis")>>,
      <<Tok("UdfExpr", "toint"), Sym("LeftParenthesis"), Id("b"),
        Sym("RightParenthesis")>> }
    \cup { <<Id("b"), Sym(o), Id("c")>> :
             o \in {"LogicOr", "LogicAnd", "Equal", "Plus", "Multiply"} }

\* ( X ), a o ( X ), ( X ) o a, - ( X )
GroupStreams ==
    LET Grp == { <<Sym("LeftParenthesis")>> \o x \o <<Sym("RightParenthesis")>> :
                   x \in GroupBodies }
        Outer == {"LogicOr", "LogicAnd", "Equal", "Plus", "Multiply"}
    IN Grp
       \cup { <<Id("a"), Sym(o)>> \o g : g \in Grp, o \in Outer }
       \cup { g \o <<Sym(o), Id("a")>> : g \in Grp, o \in Outer }
       \cup { <<Sym("Minus")>> \o g : g \in Grp }

\* the tokens of the arbitrary short streams
ProbeToks ==
    { Id("a"), Tok("Integer", "1"), Tok("Integer", "1x"), Tok("Value", "s"),
      Tok("UdfExpr", "toint"), Tok("UdfExpr", "NoSuch") }
    \cup { Sym(T) : T \in {"LeftParenthesis", "RightParenthesis", "Comma", "Plus",
                           "Minus", "Star", "LogicAnd", "Between", "IN", "Negate",
                           "CommentSingleLine", "From"} }

RECURSIVE StreamsOver(_, _)

\* the streams of at most n tokens of S
StreamsOver(S, n) ==
    IF n = 0 THEN { <<>> }
    ELSE LET Shorter == StreamsOver(S, n - 1)
         IN Shorter \cup { Append(q, x) : q \in Shorter, x \in S }

ShortStreams == StreamsOver(ProbeToks, MaxShort)

Inputs ==
    ShortStreams \cup PairStreams \cup BetweenStreams \cup CallStreams
    \cup GroupStreams

\* PagerSpec: the lexer's output before EOF
PagerToks == { Id("a"), Sym("Plus") }

PagerStreams == StreamsOver(PagerToks, MaxStream)

(***************************************************************************)
(* Dialect writers.  A text is a sequence of characters.  The writers that *)
(* embed *defaultDialect (default, json, keyword) are one record with the  *)
(* buffer; the fingerprint writer holds its base writer and a placeholder. *)
(* A method promoted from an embedded writer runs with the embedded writer *)
(* as its receiver, so the calls it makes are the embedded writer's own.   *)
(***************************************************************************)
Str(c) == <<c>>

\* the grave accent, the identity quote of the default writers, as a character
BackQuote == "GRAVE"

\* the double quote, their literal quote
DoubleQuote == "\""

NullText == <<"N", "U", "L", "L">>

ToLowerChar(c) ==
    CASE c = "A" -> "a"
      [] c = "S" -> "s"
      [] c = "B" -> "b"
      [] OTHER -> c

\* strings.ToLower on a text
strings_ToLower(s) == [k \in 1..Len(s) |-> ToLowerChar(s[k])]

RECURSIVE escapeQuote(_, _)

\* every embedded occurrence of the quote is doubled
escapeQuote(quote, s) ==
    IF s = <<>> THEN <<>>
    ELSE (IF Head(s) = quote THEN <<quote, quote>> ELSE <<Head(s)>>)
         \o escapeQuote(quote, Tail(s))

\* wraps s in the quote, escaping the quotes in it
LiteralQuoteEscape(quote, s) == <<quote>> \o escapeQuote(quote, s) \o <<quote>>

\* an identifier is quoted only when it has to be
IdentityNeedsQuote(i) ==
    /\ i # <<>>
    /\ \/ i[1] \in {"1", "5"}
       \/ \E k \in 1..Len(i) : i[k] \in {" ", ".", DoubleQuote, BackQuote}

IdentityMaybeEscape(quote, i) ==
    IF IdentityNeedsQuote(i) THEN LiteralQuoteEscape(quote, i) ELSE i

RECURSIVE escapeJSON(_)

escapeJSON(s) ==
    IF s = <<>> THEN <<>>
    ELSE (IF Head(s) \in {"\"", "\\"} THEN <<"\\", Head(s)>> ELSE <<Head(s)>>)
         \o escapeJSON(Tail(s))

\* strconv.Quote
strconv_Quote(s) == <<"\"">> \o escapeJSON(s) \o <<"\"">>

defaultDialect(kind, l, i, null, strip, kw) ==
    [kind |-> kind, buf |-> <<>>, Null |-> null, LiteralQuote |-> l,
     IdentityQuote |-> i, stripNamespace |-> strip, kw |-> kw]

NewDialectWriter(l, i) == defaultDialect("default", l, i, <<>>, FALSE, {})

NewJSONDialectWriter == defaultDialect("json", DoubleQuote, BackQuote, NullText, FALSE, {})

NewDefaultWriter == defaultDialect("default", DoubleQuote, BackQuote, NullText, FALSE, {})

NewDefaultNoNamspaceWriter == defaultDialect("default", DoubleQuote, BackQuote, NullText, TRUE, {})

\* m[w] = struct{}{} for each w of kw: the words are kept as they are written
NewKeywordDialect(kw) ==
    defaultDialect("keyword", DoubleQuote, BackQuote, NullText, FALSE,
                   {kw[k] : k \in 1..Len(kw)})

NewFingerPrintWriter(replace, base) ==
    [kind |-> "fingerprint", base |-> base, replace |-> replace]

NewFingerPrinter == NewFingerPrintWriter(Str("?"), NewDefaultWriter)

\* bytes.Buffer: Write, WriteByte, WriteString, and io.WriteString on it
Write(d, bytes) == [d EXCEPT !.buf = @ \o bytes]

defaultDialect_WriteLiteral(d, l) ==
    IF l = Str("*") THEN Write(d, Str("*"))
    ELSE Write(d, LiteralQuoteEscape(d.LiteralQuote, l))

defaultDialect_WriteIdentity(d, i) ==
    IF i = Str("*") THEN Write(d, Str("*"))
    ELSE Write(d, IdentityMaybeEscape(d.IdentityQuote, i))

\* w.WriteIdentity here is the embedded writer's own
defaultDialect_WriteLeftRightIdentity(d, l, r) ==
    IF l = <<>> THEN defaultDialect_WriteIdentity(d, r)
    ELSE IF d.stripNamespace THEN defaultDialect_WriteIdentity(d, r)
    ELSE defaultDialect_WriteIdentity(
             Write(defaultDialect_WriteIdentity(d, l), Str(".")), r)

\* the quote given is not the one used
defaultDialect_WriteIdentityQuote(d, i, quote) ==
    IF i = Str("*") THEN Write(d, Str("*"))
    ELSE Write(d, LiteralQuoteEscape(d.IdentityQuote, i))

defaultDialect_WriteNumber(d, n) == Write(d, n)

defaultDialect_WriteNull(d) == Write(d, d.Null)

(***************************************************************************)
(* value.Value, by its type and the text of Val() / ToString()             *)
(***************************************************************************)
Value(t, s) == [t |-> t, s |-> s]

\* w.WriteLiteral and w.WriteNumber here are the embedded writer's own
defaultDialect_WriteValue(d, val) ==
    CASE val.t = "string" -> defaultDialect_WriteLiteral(d, val.s)
      [] val.t \in {"int", "number"} -> defaultDialect_WriteNumber(d, val.s)
      [] val.t = "bool" -> Write(d, val.s)
      [] val.t = "nil" -> defaultDialect_WriteNull(d)
      [] val.t = "time" -> defaultDialect_WriteLiteral(d, val.s)
      [] OTHER -> Write(d, val.s)

jsonDialect_WriteLiteral(d, l) ==
    IF l = Str("*") THEN Write(d, Str("*")) ELSE Write(d, strconv_Quote(l))

keywordDialect_WriteIdentity(d, id) ==
    IF strings_ToLower(id) \in d.kw
    THEN Write(d, LiteralQuoteEscape(d.IdentityQuote, id))
    ELSE defaultDialect_WriteIdentity(d, id)

\* the method a DialectWriter value that embeds *defaultDialect answers with
Base_WriteIdentity(d, i) ==
    IF d.kind = "keyword" THEN keywordDialect_WriteIdentity(d, i)
    ELSE defaultDialect_WriteIdentity(d, i)

Base_WriteLiteral(d, l) ==
    IF d.kind = "json" THEN jsonDialect_WriteLiteral(d, l)
    ELSE defaultDialect_WriteLiteral(d, l)

fingerprintDialect_WriteLiteral(f, l) == [f EXCEPT !.base = Write(@, f.replace)]

fingerprintDialect_WriteNumber(f, n) == [f EXCEPT !.base = Write(@, f.replace)]

fingerprintDialect_WriteIdentity(f, id) ==
    [f EXCEPT !.base = Base_WriteIdentity(@, strings_ToLower(id))]

(***************************************************************************)
(* The calls of the DialectWriter interface on a writer x.  What the       *)
(* fingerprint writer does not define is promoted from its base.           *)
(***************************************************************************)
WriteLiteral(x, l) ==
    IF x.kind = "fingerprint" THEN fingerprintDialect_WriteLiteral(x, l)
    ELSE Base_WriteLiteral(x, l)

WriteNumber(x, n) ==
    IF x.kind = "fingerprint" THEN fingerprintDialect_WriteNumber(x, n)
    ELSE defaultDialect_WriteNumber(x, n)

WriteIdentity(x, i) ==
    IF x.kind = "fingerprint" THEN fingerprintDialect_WriteIdentity(x, i)
    ELSE Base_WriteIdentity(x, i)

WriteLeftRightIdentity(x, l, r) ==
    IF x.kind = "fingerprint"
    THEN [x EXCEPT !.base = defaultDialect_WriteLeftRightIdentity(@, l, r)]
    ELSE defaultDialect_WriteLeftRightIdentity(x, l, r)

WriteValue(x, val) ==
    IF x.kind = "fingerprint"
    THEN [x EXCEPT !.base = defaultDialect_WriteValue(@, val)]
    ELSE defaultDialect_WriteValue(x, val)

WriteNull(x) ==
    IF x.kind = "fingerprint"
    THEN [x EXCEPT !.base = defaultDialect_WriteNull(@)]
    ELSE defaultDialect_WriteNull(x)

\* String(): the bytes written so far
Output(x) == IF x.kind = "fingerprint" THEN x.base.buf ELSE x.buf

(***************************************************************************)
(* The function registry's side: EmptyEvalFunc and the loading of builtins *)
(***************************************************************************)
NilValue == Value("nil", <<>>)

\* answers absent only when it is given no arguments
EmptyEvalFunc_ArgsPresent(args, ctx) == [v |-> NilValue, ok |-> args # <<>>]

EmptyEvalFunc(args, ctx) == [v |-> NilValue, ok |-> FALSE]

\* builtins.LoadAllBuiltins(): every builtin is registered, once
LoadAllBuiltins(reg) == reg \cup funcs

(***************************************************************************)
(* Inputs of the writers and of EmptyEvalFunc                              *)
(***************************************************************************)
MaxWrites == 2
MaxWords == 1
MaxEvalArgs == 2

IdentTexts ==
    {<<"a", "s">>, <<"A", "S">>, <<"A", "s">>, <<"b">>, <<"*">>,
     <<"1", "a">>, <<"a", ".", "b">>}

LiteralTexts == {<<"a">>, <<"A", "b">>, <<"*">>, <<DoubleQuote>>, <<>>}

NumberTexts == {<<"1">>, <<"5">>, <<"1", ".", "5">>}

Namespaces == {<<>>, <<"S">>, <<"b">>}

Values ==
    {Value("string", l) : l \in LiteralTexts}
        \cup {Value("int", <<"1">>), Value("int", <<"5">>),
              Value("number", <<"1", ".", "5">>),
              Value("bool", <<"t", "r", "u", "e">>), NilValue}

WordTexts == {<<"a", "s">>, <<"A", "S">>, <<"b">>}

KeywordLists == UNION {[1..n -> WordTexts] : n \in 0..MaxWords}

BaseWriters ==
    {NewDefaultWriter, NewDefaultNoNamspaceWriter, NewJSONDialectWriter,
     NewDialectWriter("'", DoubleQuote)}
        \cup {NewKeywordDialect(kw) : kw \in KeywordLists}

Writers ==
    BaseWriters \cup {NewFingerPrinter}
        \cup {NewFingerPrintWriter(r, b) : r \in {Str("?"), Str("X")}, b \in BaseWriters}

Contexts == {"nil", "ctx1", "ctx2"}

EvalArgs == UNION {[1..n -> {Value("string", <<"a">>), Value("int", <<"1">>),
                             Value("bool", <<"t", "r", "u", "e">>), NilValue}]
                   : n \in 0..MaxEvalArgs}

NoWrite == [op |-> "none", a |-> <<>>, b |-> <<>>, val |-> NilValue,
            before |-> NewDefaultWriter, n |-> 0]

NoEval == [called |-> FALSE, args |-> <<>>, ctx |-> "nil", v |-> NilValue,
           ok |-> FALSE]

(***************************************************************************)
(* State and actions                                                       *)
(***************************************************************************)
NoCall == [op |-> "none", tok |-> NoTok, before |-> NewLexTokenPager(NewLexer(<<>>))]

NoResult == [how |-> "none", err |-> NoErr]

NoAgain == [Root |-> Nil, how |-> "none", err |-> NoErr]

InitOn(S) ==
    /\ src \in S
    /\ m = NewLexTokenPager(NewLexer(src))
    /\ ret = NoCall
    /\ stage = "init"
    /\ tree = [runCheck |-> FALSE, Root |-> Nil]
    /\ result = NoResult
    /\ emitted = <<>>
    /\ again = NoAgain
    /\ w = NewDefaultWriter
    /\ wcall = NoWrite
    /\ registry = funcs
    /\ evalret = NoEval

Init == InitOn(Inputs)

PagerInit == InitOn(PagerStreams)

\* ---- PagerSpec: the pager's own calls; ret.before is the pager they met
CallNext ==
    /\ m' = Next(m).m
    /\ ret' = [op |-> "Next", tok |-> Next(m).tok, before |-> m]
    /\ UNCHANGED <<src, stage, tree, result, emitted, again>>
    /\ UNCHANGED wvars

CallCur ==
    /\ m' = Cur(m).m
    /\ ret' = [op |-> "Cur", tok |-> Cur(m).tok, before |-> m]
    /\ UNCHANGED <<src, stage, tree, result, emitted, again>>
    /\ UNCHANGED wvars

CallPeek ==
    /\ m' = Peek(m).m
    /\ ret' = [op |-> "Peek", tok |-> Peek(m).tok, before |-> m]
    /\ UNCHANGED <<src, stage, tree, result, emitted, again>>
    /\ UNCHANGED wvars

CallBackup ==
    /\ m' = Backup(m)
    /\ ret' = [op |-> "Backup", tok |-> NoTok, before |-> m]
    /\ UNCHANGED <<src, stage, tree, result, emitted, again>>
    /\ UNCHANGED wvars

PagerNext == CallNext \/ CallCur \/ CallPeek \/ CallBackup

PagerSpec == PagerInit /\ [][PagerNext]_vars

\* ---- Spec: t := NewTree(pager); err := t.BuildTree(runCheck)
CallBuildTree ==
    /\ stage = "init"
    /\ \E runCheck \in BOOLEAN :
         LET b == BuildTree(NewTree(m), runCheck)
         IN /\ m' = b.t.m
            /\ tree' = [runCheck |-> b.t.runCheck, Root |-> b.t.Root]
            /\ result' = [how |-> b.how, err |-> b.err]
    /\ stage' = "built"
    /\ UNCHANGED <<src, ret, emitted, again>>
    /\ UNCHANGED wvars

\* t.String() of a tree that was built
CallString ==
    /\ stage = "built"
    /\ result.how = "returned"
    /\ tree.Root # Nil
    /\ emitted' = String(tree.Root)
    /\ stage' = "emitted"
    /\ UNCHANGED <<src, m, ret, tree, result, again>>
    /\ UNCHANGED wvars

\* the same parse, of the emitted text
CallReparse ==
    /\ stage = "emitted"
    /\ LET b == BuildTree(NewTree(NewLexTokenPager(NewLexer(emitted))),
                          tree.runCheck)
       IN again' = [Root |-> b.t.Root, how |-> b.how, err |-> b.err]
    /\ stage' = "reparsed"
    /\ UNCHANGED <<src, m, ret, tree, result, emitted>>
    /\ UNCHANGED wvars

Step == CallBuildTree \/ CallString \/ CallReparse

Spec == Init /\ [][Step]_vars

\* ---- DialectSpec: writes on a writer that one of the constructors made
ParserIdle ==
    /\ src = <<>>
    /\ m = NewLexTokenPager(NewLexer(src))
    /\ ret = NoCall
    /\ stage = "init"
    /\ tree = [runCheck |-> FALSE, Root |-> Nil]
    /\ result = NoResult
    /\ emitted = <<>>
    /\ again = NoAgain

DialectInit ==
    /\ ParserIdle
    /\ w \in Writers
    /\ wcall = NoWrite
    /\ registry = funcs
    /\ evalret = NoEval

Wrote(op, a, b, val) ==
    [op |-> op, a |-> a, b |-> b, val |-> val, before |-> w, n |-> wcall.n + 1]

CallWriteLiteral ==
    /\ wcall.n < MaxWrites
    /\ \E l \in LiteralTexts :
         /\ w' = WriteLiteral(w, l)
         /\ wcall' = Wrote("WriteLiteral", l, <<>>, NilValue)
    /\ UNCHANGED <<registry, evalret>>
    /\ UNCHANGED pvars

CallWriteNumber ==
    /\ wcall.n < MaxWrites
    /\ \E n \in NumberTexts :
         /\ w' = WriteNumber(w, n)
         /\ wcall' = Wrote("WriteNumber", n, <<>>, NilValue)
    /\ UNCHANGED <<registry, evalret>>
    /\ UNCHANGED pvars

CallWriteIdentity ==
    /\ wcall.n < MaxWrites
    /\ \E i \in IdentTexts :
         /\ w' = WriteIdentity(w, i)
         /\ wcall' = Wrote("WriteIdentity", i, <<>>, NilValue)
    /\ UNCHANGED <<registry, evalret>>
    /\ UNCHANGED pvars

CallWriteLeftRightIdentity ==
    /\ wcall.n < MaxWrites
    /\ \E l \in Namespaces, r \in IdentTexts :
         /\ w' = WriteLeftRightIdentity(w, l, r)
         /\ wcall' = Wrote("WriteLeftRightIdentity", l, r, NilValue)
    /\ UNCHANGED <<registry, evalret>>
    /\ UNCHANGED pvars

CallWriteValue ==
    /\ wcall.n < MaxWrites
    /\ \E val \in Values :
         /\ w' = WriteValue(w, val)
         /\ wcall' = Wrote("WriteValue", <<>>, <<>>, val)
    /\ UNCHANGED <<registry, evalret>>
    /\ UNCHANGED pvars

CallWriteNull ==
    /\ wcall.n < MaxWrites
    /\ w' = WriteNull(w)
    /\ wcall' = Wrote("WriteNull", <<>>, <<>>, NilValue)
    /\ UNCHANGED <<registry, evalret>>
    /\ UNCHANGED pvars

DialectNext ==
    \/ CallWriteLiteral
    \/ CallWriteNumber
    \/ CallWriteIdentity
    \/ CallWriteLeftRightIdentity
    \/ CallWriteValue
    \/ CallWriteNull

DialectSpec == DialectInit /\ [][DialectNext]_vars

\* ---- FuncsSpec: the registry before and after the builtins are loaded
FuncsInit ==
    /\ ParserIdle
    /\ w = NewDefaultWriter
    /\ wcall = NoWrite
    /\ registry = {}
    /\ evalret = NoEval

CallLoadAllBuiltins ==
    /\ registry' = LoadAllBuiltins(registry)
    /\ registry' # registry
    /\ UNCHANGED <<w, wcall, evalret>>
    /\ UNCHANGED pvars

CallEmptyEvalFunc ==
    /\ \E args \in EvalArgs, ctx \in Contexts :
         evalret' = [called |-> TRUE, args |-> args, ctx |-> ctx,
                     v |-> EmptyEvalFunc(args, ctx).v,
                     ok |-> EmptyEvalFunc(args, ctx).ok]
    /\ UNCHANGED <<w, wcall, registry>>
    /\ UNCHANGED pvars

FuncsNext == CallLoadAllBuiltins \/ CallEmptyEvalFunc

FuncsSpec == FuncsInit /\ [][FuncsNext]_vars

(***************************************************************************)
(* Properties                                                              *)
(***************************************************************************)
\* BuildTree returned a nil error
Built == stage # "init" /\ result.how = "returned" /\ result.err = NoErr

\* the node of an operand token
AtomNode(tok) ==
    CASE tok.T \in {"Integer", "Float"} -> NewNumber(tok.V).n
      [] tok.T = "Identity" -> NewIdentityNode(tok.V)
      [] OTHER -> NewStringNode(tok.V)

\* Binary(op, l, r), not parenthesized
Bin(op, l, r) == NewBinaryNode(op, l, r)

\* the precedence level of a binary operator, loosest first
Prec(T) ==
    CASE T \in OrOps -> 1
      [] T \in AndOps -> 2
      [] T \in CmpOps -> 3
      [] T \in AddOps -> 4
      [] T \in MulOps -> 5

\* C1: every structural parse error is caught at the BuildTree boundary:
\* BuildTree returns to its caller, with a nil error and a non-nil Root or
\* with a non-nil error and a nil Root.
C1_ErrorsCaught ==
    stage # "init" =>
        /\ result.how = "returned"
        /\ \/ result.err = NoErr /\ tree.Root # Nil
           \/ result.err # NoErr /\ tree.Root = Nil

\* C2: precedence.  In "x p y q z" the operator of the higher level binds
\* first: if q is higher the tree is Binary(p, x, Binary(q, y, z)), if p is
\* higher it is Binary(q, Binary(p, x, y), z).
C2_Precedence ==
    (stage = "built" /\ src \in PairStreams) =>
        LET x == AtomNode(src[1])
            y == AtomNode(src[3])
            z == AtomNode(src[5])
            p == src[2]
            q == src[4]
        IN /\ Prec(q.T) > Prec(p.T) =>
                Built /\ tree.Root = Bin(p, x, Bin(q, y, z))
           /\ Prec(p.T) > Prec(q.T) =>
                Built /\ tree.Root = Bin(q, Bin(p, x, y), z)

C2_Witness ==
    /\ stage = "built"
    /\ src = <<Id("a"), Sym("LogicOr"), Id("b"), Sym("Multiply"), Id("c")>>
    /\ Built
    /\ tree.Root.k = "Binary"
    /\ tree.Root.op = "LogicOr"
    /\ tree.Root.r.k = "Binary"

\* C3: associativity.  Two operators p, q of the same level in "x p y q z"
\* give Binary(q, Binary(p, x, y), z): every level is left-associative.
C3_LeftAssociative ==
    (stage = "built" /\ src \in PairStreams /\ Prec(src[2].T) = Prec(src[4].T)) =>
        /\ Built
        /\ tree.Root = Bin(src[4],
                           Bin(src[2], AtomNode(src[1]), AtomNode(src[3])),
                           AtomNode(src[5]))

C3_Witness ==
    /\ stage = "built"
    /\ src = <<Id("a"), Sym("Minus"), Id("b"), Sym("Plus"), Id("c")>>
    /\ Built
    /\ tree.Root.k = "Binary"
    /\ tree.Root.op = "Plus"
    /\ tree.Root.l.k = "Binary"

\* the streams that are expressions of the grammar
ValidStreams ==
    PairStreams \cup GroupStreams
    \cup { q \in BetweenStreams : q[4].T = "LogicAnd" }
    \cup { q \in CallStreams : q[Len(q)].T = "RightParenthesis" }

\* C4: round trip.  The text of Tree.String() parses to the tree it was
\* emitted from.
C4_RoundTrip ==
    (stage = "reparsed" /\ src \in ValidStreams) =>
        /\ again.how = "returned"
        /\ again.err = NoErr
        /\ again.Root = tree.Root

\* the descriptor Func resolves for a name: the registered one, looked up by
\* the lower-cased name, or else the synthetic one
Descriptor(name) ==
    IF ToLower(name) \in funcs
    THEN [Name |-> ToLower(name), synthetic |-> FALSE]
    ELSE SyntheticFunc(name)

RECURSIVE ExpectedArgs(_)

\* the nodes of a comma separated list of ArgExprs, in source order
ExpectedArgs(q) ==
    IF q = <<>> THEN <<>>
    ELSE IF Len(q) >= 3 /\ q[2].T # "Comma"
    THEN <<Bin(q[2], AtomNode(q[1]), AtomNode(q[3]))>>
         \o ExpectedArgs(SubSeq(q, 5, Len(q)))
    ELSE <<AtomNode(q[1])>> \o ExpectedArgs(SubSeq(q, 3, Len(q)))

\* the argument tokens of a call stream: between "name (" and the final ")"
ArgTokens(q) ==
    SubSeq(q, 3, IF q[Len(q)].T = "RightParenthesis" /\ Len(q) > 2
                 THEN Len(q) - 1 ELSE Len(q))

\* the Func node of a call stream
ExpectedCall(q) ==
    [k |-> "Func", name |-> q[1].V, f |-> Descriptor(q[1].V),
     args |-> ExpectedArgs(ArgTokens(q))]

ClosedCalls == { q \in CallStreams : q[Len(q)].T = "RightParenthesis" }

\* C5: a call of a name the registry does not hold fails the strict parse
\* with the error "expr: non existent function <name>" and succeeds in the
\* lax parse, as the same tree with a synthetic descriptor.
C5_UnknownFunctionByMode ==
    (stage = "built" /\ src \in ClosedCalls /\ ToLower(src[1].V) \notin funcs) =>
        IF tree.runCheck
        THEN /\ result.how = "returned"
             /\ result.err = PanicError("expr: non existent function %s",
                                        src[1], src[1].V)
        ELSE /\ Built
             /\ tree.Root = ExpectedCall(src)
             /\ tree.Root.f = SyntheticFunc(src[1].V)

\* C6: in "x BETWEEN lo AND hi" the AND is a delimiter and the tree is
\* Tri(BETWEEN, x, lo, hi); a second AND after hi is a conjunction whose left
\* operand is that Tri.
C6_Between ==
    (stage = "built" /\ src \in BetweenStreams /\ src[4].T = "LogicAnd") =>
        LET tri == NewTriNode(src[2], AtomNode(src[1]), AtomNode(src[3]),
                              AtomNode(src[5]))
        IN /\ Built
           /\ tree.Root = IF Len(src) = 5 THEN tri
                          ELSE Bin(src[6], tri, AtomNode(src[7]))

C6_Witness ==
    /\ stage = "built"
    /\ src = <<Id("x"), Sym("Between"), Id("a"), Sym("LogicAnd"), Id("b"),
               Sym("LogicAnd"), Id("c")>>
    /\ Built
    /\ tree.Root.k = "Binary"
    /\ tree.Root.l.k = "Tri"

\* C10: a call's arguments are full expressions: the Func node holds one
\* node per comma separated expression, in source order, an operator after
\* a value continuing the argument.
C10_FuncArguments ==
    (/\ stage = "built"
     /\ src \in CallStreams
     /\ (tree.runCheck => ToLower(src[1].V) \in funcs)) =>
        /\ Built
        /\ tree.Root = ExpectedCall(src)

C10_Witness ==
    /\ stage = "built"
    /\ src = <<Tok("UdfExpr", "toint"), Sym("LeftParenthesis"), Id("a"),
               Sym("Comma"), Id("b"), Sym("GT"), Id("c"),
               Sym("RightParenthesis")>>
    /\ Built
    /\ tree.runCheck
    /\ Len(tree.Root.args) = 2
    /\ tree.Root.args[2].k = "Binary"

RECURSIVE HasSynthetic(_)

\* some Func node of the tree carries a synthetic descriptor
HasSynthetic(n) ==
    CASE n.k = "Func" ->
              n.f.synthetic \/ \E i \in DOMAIN n.args : HasSynthetic(n.args[i])
      [] n.k \in {"Tri", "MultiArg"} -> \E i \in DOMAIN n.args : HasSynthetic(n.args[i])
      [] n.k = "Binary" -> HasSynthetic(n.l) \/ HasSynthetic(n.r)
      [] n.k = "Unary" -> HasSynthetic(n.arg)
      [] OTHER -> FALSE

\* What the code does for an unknown function name: the strict parse ends in
\* a panic that carries the error and leaves through BuildTree, the lax parse
\* yields the tree with the synthetic descriptor, and a tree built by a
\* strict parse holds no synthetic descriptor.
UnknownFunctionAsBuilt ==
    /\ (stage = "built" /\ src \in ClosedCalls /\ ToLower(src[1].V) \notin funcs) =>
          IF tree.runCheck
          THEN /\ result.how = "panic"
               /\ result.err = PanicError("expr: non existent function %s",
                                          src[1], src[1].V)
               /\ tree.Root = Nil
          ELSE Built /\ tree.Root = ExpectedCall(src)
    /\ (Built /\ tree.runCheck) => ~HasSynthetic(tree.Root)

\* The parser's own pager calls read no index outside the buffer.
ParseReadsInRange == ~m.fault

\* ---- the pager

\* C7: Peek does not move the cursor: Cur() after a Peek returns the token
\* Cur() returned before it, and a second Peek returns the same token and
\* leaves the pager as the first left it.
C7_PeekKeepsCur ==
    ret.op = "Peek" =>
        /\ Cur(m).tok = Cur(ret.before).tok
        /\ Peek(m).tok = ret.tok
        /\ Peek(m).m = m

\* Peek alone is idempotent, also on the final EOF token.
PeekIdempotent == ret.op = "Peek" => Peek(m).tok = ret.tok /\ Peek(m).m = m

\* C8: the buffer is a prefix of the lexer's output; a call leaves it alone
\* or appends the lexer's next token; once EOF is buffered the pager is done,
\* the lexer is not called again and the buffer no longer grows.
C8_BufferAppendOnly ==
    /\ [](/\ m.tokens = LexOutput(NewLexer(src), Len(m.tokens))
          /\ m.lex.pos = Len(m.tokens)
          /\ m.done <=> (\E i \in DOMAIN m.tokens : m.tokens[i].T = "EOF")
          /\ \A i \in DOMAIN m.tokens :
                m.tokens[i].T = "EOF" => i = Len(m.tokens))
    /\ [][/\ \/ m'.tokens = m.tokens /\ m'.lex = m.lex
             \/ /\ m'.tokens = Append(m.tokens, NextToken(m.lex).tok)
                /\ m'.lex = NextToken(m.lex).lex
          /\ m.done => m'.done /\ m'.tokens = m.tokens /\ m'.lex = m.lex]_vars

C8_Witness ==
    /\ ret.op = "Next"
    /\ ret.before.done
    /\ ret.before.cursor = 0
    /\ Len(m.tokens) = 3
    /\ m.lex.pos = 3

\* C9: the cursor stays in the buffered range, Backup moves it back by one
\* and does nothing at position 0 or on an unprimed pager, and no call reads
\* an index outside the buffer.
C9_CursorInRange ==
    /\ m.cursor >= -1
    /\ m.cursor <= Len(m.tokens) - 1
    /\ ~m.fault
    /\ ret.op \in {"Next", "Cur", "Peek"} => ret.tok # NoTok
    /\ ret.op \in {"Next", "Cur"} => m.cursor >= 0 /\ ret.tok = m.tokens[m.cursor + 1]
    /\ ret.op = "Backup" =>
          m = IF ret.before.cursor > 0
              THEN [ret.before EXCEPT !.cursor = @ - 1]
              ELSE ret.before

C9_Witness ==
    /\ ret.op = "Backup"
    /\ ret.before.cursor = 0
    /\ m.cursor = 0
    /\ m.done
    /\ Len(m.tokens) = 3

\* the bytes the last write added to the writer's output
Added == SubSeq(Output(w), Len(Output(wcall.before)) + 1, Len(Output(w)))

\* C11: on a fingerprint writer every WriteLiteral, WriteNumber and WriteValue
\* of a string or a number adds the placeholder and nothing else to the
\* output, so the output does not depend on the literal or number written,
\* and WriteIdentity and WriteLeftRightIdentity add lower-cased text only.
C11_FingerprintErases ==
    (wcall.op # "none" /\ wcall.before.kind = "fingerprint") =>
        CASE wcall.op \in {"WriteLiteral", "WriteNumber"} ->
                  Added = wcall.before.replace
          [] wcall.op = "WriteValue"
               /\ wcall.val.t \in {"string", "int", "number"} ->
                  Added = wcall.before.replace
          [] wcall.op \in {"WriteIdentity", "WriteLeftRightIdentity"} ->
                  Added = strings_ToLower(Added)
          [] OTHER -> TRUE

\* the writes the fingerprint writer defines itself do as C11 says
FingerprintOwnWrites ==
    (wcall.op # "none" /\ wcall.before.kind = "fingerprint") =>
        CASE wcall.op \in {"WriteLiteral", "WriteNumber"} ->
                  Added = wcall.before.replace
          [] wcall.op = "WriteIdentity" -> Added = strings_ToLower(Added)
          [] OTHER -> TRUE

\* C12: WriteIdentity(id) on a keyword writer adds id quoted with the
\* identity quote when id equals one of the writer's words ignoring case,
\* and otherwise what the default writer's WriteIdentity adds.
C12_KeywordIgnoresCase ==
    (wcall.op = "WriteIdentity" /\ wcall.before.kind = "keyword") =>
        Added = IF \E word \in wcall.before.kw :
                      strings_ToLower(word) = strings_ToLower(wcall.a)
                THEN LiteralQuoteEscape(BackQuote, wcall.a)
                ELSE Output(defaultDialect_WriteIdentity(NewDefaultWriter, wcall.a))

\* a keyword writer whose words are written in lower case matches them in
\* any case
KeywordLowerWords ==
    (/\ wcall.op = "WriteIdentity"
     /\ wcall.before.kind = "keyword"
     /\ \A word \in wcall.before.kw : word = strings_ToLower(word)) =>
        Added = IF strings_ToLower(wcall.a) \in wcall.before.kw
                THEN LiteralQuoteEscape(BackQuote, wcall.a)
                ELSE Output(defaultDialect_WriteIdentity(NewDefaultWriter, wcall.a))

=============================================================================
